---- MODULE Spec2Model ----
(***************************************************************************)
(* Webhook receiver of a voice-call platform (POST /api/handler).  Three   *)
(* revisions of the handler are in the repository:                         *)
(*   "flat"    src/server.js            flattened record, JSON CRM body    *)
(*   "form"    src/unnamed/part_000:1   flattened record, sanitized,       *)
(*                                      multipart CRM body                 *)
(*   "history" src/unnamed/part_000:219 profile + callHistory, no CRM      *)
(* One revision is deployed at a time (variable rev).  Each request is a   *)
(* suspendable task; the actions are the pieces of the handler between two *)
(* network calls (LLM call, store lookup, store write, CRM call).          *)
(*                                                                         *)
(* JavaScript strings are sequences of one-character strings, so that      *)
(* startsWith / indexOf / substring / join are computed, not assumed.      *)
(***************************************************************************)
EXTENDS Integers, Sequences, FiniteSets, TLC

\* ------------------------------------------------------------- bounds
\* Number of requests the platform sends in one behaviour.
MaxReq == 2

\* ------------------------------------------------------ JavaScript values
\* undefined and null are sequences too (of one long token), so that every
\* value compares with every other; no string of the model contains a token.
undefined == <<"<undefined>">>
null == <<"<null>">>
\* A JSON number where a string is expected (e.g. "number": 919999999999).
NumberValue == <<"<number>">>

IsString(v) == v \notin {undefined, null, NumberValue}
\* JS truthiness of a value: undefined, null and "" are falsy.
IsTruthy(v) == v \notin {undefined, null, << >>}
\* a || b
Or(a, b) == IF IsTruthy(a) THEN a ELSE b
\* obj.f of an object that may lack f
Get(obj, f) == IF f \in DOMAIN obj THEN obj[f] ELSE undefined

Min(a, b) == IF a <= b THEN a ELSE b
Max(a, b) == IF a >= b THEN a ELSE b
\* String.prototype.startsWith
startsWith(s, p) == Len(s) >= Len(p) /\ SubSeq(s, 1, Len(p)) = p
\* String.prototype.indexOf for a one-character needle (zero-based, -1 if absent)
indexOf(s, c) ==
    IF \E i \in 1..Len(s) : s[i] = c
    THEN (CHOOSE i \in 1..Len(s) : s[i] = c /\ \A j \in 1..(i - 1) : s[j] # c) - 1
    ELSE -1
\* String.prototype.substring(a, b) (zero-based, end exclusive, arguments swapped
\* when a > b)
substring(s, a, b) ==
    LET lo == Max(0, Min(Min(a, b), Len(s)))
        hi == Max(0, Min(Max(a, b), Len(s)))
    IN  SubSeq(s, lo + 1, hi)

\* ---------------------------------------------------------- string literals
NA == <<"N", "/", "A">>
Unknown == <<"U", "n", "k", "n", "o", "w", "n">>
Uncertain == <<"U", "n", "c", "e", "r", "t", "a", "i", "n">>
ConnectedIB == <<"C", "o", "n", "n", "e", "c", "t", "e", "d", "-", "I", "B">>
ConnectedOB == <<"C", "o", "n", "n", "e", "c", "t", "e", "d", "-", "O", "B">>
Interested == <<"I", "n", "t", "e", "r", "e", "s", "t", "e", "d">>
CallBack == <<"C", "a", "l", "l", " ", "B", "a", "c", "k">>
Busy == <<"B", "u", "s", "y">>
Evening == <<"E", "v", "e", "n", "i", "n", "g">>
Incoming == <<"I", "n", "c", "o", "m", "i", "n", "g">>
NoRemark == <<"N", "o", " ", "r", "e", "m", "a", "r", "k", ".">>
SIP == <<"s", "i", "p", ":">>

\* The enumerated Lead Status literals of the prompt contract that the model
\* uses are members of this set; the whole set is listed for the sentinel check.
LeadStatusEnum ==
    { Interested,
      <<"N","o","t"," ","I","n","t","e","r","e","s","t","e","d">>,
      <<"I","n","t","e","r","e","s","t","e","d"," ","I","n"," ","F","u","t","u","r","e">>,
      CallBack,
      <<"C","a","l","l"," ","B","a","c","k"," ","I","n"," ","E","v","e","n","i","n","g">>,
      <<"C","a","l","l"," ","D","i","s","c","o","n","n","e","c","t","e","d"," ","B","y"," ","C","u","s","t","o","m","e","r">>,
      <<"B","o","o","k","e","d">>,
      <<"E","n","q","u","i","r","y"," ","F","o","r"," ","T","o","o","l","s">>,
      <<"E","n","q","u","i","r","y"," ","F","o","r"," ","J","o","b">>,
      <<"E","n","q","u","i","r","y"," ","F","o","r"," ","F","r","a","n","c","h","i","s","e">>,
      Busy,
      <<"A","p","p","l","i","c","a","n","t"," ","N","o","t"," ","A","v","a","i","l","a","b","l","e">> }

\* ------------------------------------------------------ phone normalization
\* getPhoneNumberFromMessage: the first truthy of message.customer.sipUri,
\* message.call.customer.number, message.call.customer.sipUri; null when none;
\* a value starting with "sip:" that contains "@" is cut to the part between.
\* A truthy non-string has no startsWith: the call throws a TypeError.
StripSipKeepingHost(number) ==
    IF startsWith(number, SIP) THEN substring(number, 4, Len(number)) ELSE number
StripSip(number) ==
    IF startsWith(number, SIP)
    THEN LET atIndex == indexOf(number, "@")
         IN  IF atIndex # -1 THEN substring(number, 4, atIndex) ELSE number
    ELSE number

getPhoneNumberFromMessageCallFirst(message) ==
    LET sipUri == Or(message.call_customer_number,
                     Or(message.call_customer_sipUri, message.customer_sipUri))
    IN  IF ~IsTruthy(sipUri) THEN [threw |-> FALSE, value |-> null]
        ELSE IF ~IsString(sipUri) THEN [threw |-> TRUE, value |-> undefined]
        ELSE [threw |-> FALSE, value |-> StripSip(sipUri)]

getPhoneNumberFromMessage(message) ==
    LET sipUri == Or(message.customer_sipUri,
                     Or(message.call_customer_number, message.call_customer_sipUri))
    IN  IF ~IsTruthy(sipUri) THEN [threw |-> FALSE, value |-> null]
        ELSE IF ~IsString(sipUri) THEN [threw |-> TRUE, value |-> undefined]
        ELSE [threw |-> FALSE, value |-> StripSip(sipUri)]

\* getPhoneNumberFromCall (history revision): only call.customer.number.
getPhoneNumberFromCall(message) ==
    IF ~IsTruthy(message.call_customer_number)
    THEN [threw |-> FALSE, value |-> null]
    ELSE IF ~IsString(message.call_customer_number)
    THEN [threw |-> TRUE, value |-> undefined]
    ELSE [threw |-> FALSE, value |-> StripSip(message.call_customer_number)]

\* ------------------------------------------------------------ sanitization
nullValues == {NA, Unknown, Uncertain}
sanitizeValueToNull(value) == IF value \in nullValues THEN null ELSE value
sanitizeValue(value) == IF value \in nullValues THEN << >> ELSE value

\* ----------------------------------------------------- regular expressions
\* The patterns of extractCallerInfo, matched as a backtracking engine matches
\* them: leftmost start, alternatives in order, greedy quantifiers longest
\* first, lazy quantifiers shortest first.
LowerLetters ==
    <<"a","b","c","d","e","f","g","h","i","j","k","l","m",
      "n","o","p","q","r","s","t","u","v","w","x","y","z">>
UpperLetters ==
    <<"A","B","C","D","E","F","G","H","I","J","K","L","M",
      "N","O","P","Q","R","S","T","U","V","W","X","Y","Z">>
Digits == {"0","1","2","3","4","5","6","7","8","9"}

toUpperCase1(c) ==
    IF \E i \in DOMAIN LowerLetters : LowerLetters[i] = c
    THEN UpperLetters[CHOOSE i \in DOMAIN LowerLetters : LowerLetters[i] = c]
    ELSE c
toLowerCase1(c) ==
    IF \E i \in DOMAIN UpperLetters : UpperLetters[i] = c
    THEN LowerLetters[CHOOSE i \in DOMAIN UpperLetters : UpperLetters[i] = c]
    ELSE c
\* \w and \s
isWordChar(c) ==
    \/ \E i \in DOMAIN LowerLetters : LowerLetters[i] = c \/ UpperLetters[i] = c
    \/ c \in Digits
    \/ c = "_"
isSpaceChar(c) == c \in {" ", "\n", "\t", "\r"}
\* [\w\s] and [\w\s+]
ClassWS(c) == isWordChar(c) \/ isSpaceChar(c)
ClassWSP(c) == isWordChar(c) \/ isSpaceChar(c) \/ c = "+"

SetMin(S) == CHOOSE x \in S : \A y \in S : x <= y
SetMax(S) == CHOOSE x \in S : \A y \in S : x >= y

\* String.prototype.trim
trim(s) ==
    LET ns == {i \in 1..Len(s) : ~isSpaceChar(s[i])}
    IN  IF ns = {} THEN << >> ELSE SubSeq(s, SetMin(ns), SetMax(ns))

\* String.prototype.split / Array.prototype.join for a one-character separator.
\* join writes undefined and null elements as the empty string.
RECURSIVE split(_, _)
split(s, sep) ==
    LET k == indexOf(s, sep)
    IN  IF k = -1 THEN <<s>>
        ELSE <<SubSeq(s, 1, k)>> \o split(SubSeq(s, k + 2, Len(s)), sep)
RECURSIVE join(_, _)
join(parts, sep) ==
    LET text(v) == IF v \in {undefined, null} THEN << >> ELSE v
    IN  IF parts = << >> THEN << >>
        ELSE IF Len(parts) = 1 THEN text(parts[1])
        ELSE text(parts[1]) \o <<sep>> \o join(Tail(parts), sep)

\* a literal of the pattern matches at position i (one-based), ignoring case
MatchesAt(s, i, lit) ==
    /\ i >= 1
    /\ i + Len(lit) - 1 <= Len(s)
    /\ \A k \in 1..Len(lit) : toLowerCase1(s[i + k - 1]) = toLowerCase1(lit[k])
\* \b between positions p and p + 1
IsWordAt(s, p) == p >= 1 /\ p <= Len(s) /\ isWordChar(s[p])
WordBoundary(s, p) == IsWordAt(s, p) # IsWordAt(s, p + 1)
\* number of consecutive characters from position p on that satisfy P
RunLen(s, p, P(_)) ==
    SetMax({e \in (p - 1)..Len(s) : \A x \in p..e : P(s[x])}) - (p - 1)
\* end of the shortest non-empty run of Cls from g on after which Stop holds
\* (a lazy group followed by a lookahead); 0 when there is none
LazyEnd(s, g, Cls(_), Stop(_, _)) ==
    LET ok == {e \in g..Len(s) : (\A x \in g..e : Cls(s[x])) /\ Stop(s, e + 1)}
    IN  IF ok = {} THEN 0 ELSE SetMin(ok)

UserTypeWords ==
    << <<"s","t","u","d","e","n","t">>,
       <<"g","u","a","r","d","i","a","n">>,
       <<"e","m","p","l","o","y","e","e">>,
       <<"g","a","r","a","g","e"," ","o","w","n","e","r">>,
       <<"u","n","e","m","p","l","o","y","e","d">>,
       <<"o","t","h","e","r">> >>

\* /\b(student|guardian|employee|garage owner|unemployed|other)\b/i when
\* bounded, /(student|...|other)/i when not: the matched text, or null
userTypeMatch(s, bounded) ==
    LET at(i, a) ==
            /\ MatchesAt(s, i, UserTypeWords[a])
            /\ bounded => /\ WordBoundary(s, i - 1)
                          /\ WordBoundary(s, i + Len(UserTypeWords[a]) - 1)
        hits == {i \in 1..Len(s) : \E a \in DOMAIN UserTypeWords : at(i, a)}
    IN  IF hits = {} THEN null
        ELSE LET i == SetMin(hits)
                 a == SetMin({b \in DOMAIN UserTypeWords : at(i, b)})
             IN  SubSeq(s, i, i + Len(UserTypeWords[a]) - 1)

\* m.charAt(0).toUpperCase() + m.slice(1)
capitalize(m) == IF m = << >> THEN << >> ELSE <<toUpperCase1(m[1])>> \o Tail(m)

\* (?=\.|$): the end of the text or a full stop
StopDotEnd(s, q) == q = Len(s) + 1 \/ (q <= Len(s) /\ s[q] = ".")

MyFullNameIs == <<"m","y"," ","f","u","l","l"," ","n","a","m","e"," ","i","s">>
MyNameIs == <<"m","y"," ","n","a","m","e"," ","i","s">>

\* /(?:my full name is|my name is)\s+([\w\s]+?)(?=\.|$)/i : group 1, or null
nameMatch(s) ==
    LET prefixes == <<MyFullNameIs, MyNameIs>>
        \* group 1 when the prefix a matches at i: \s+ gives back as little as
        \* it must for the lazy group to succeed
        group(i, a) ==
            LET p  == i + Len(prefixes[a])
                ws == RunLen(s, p, isSpaceChar)
                js == {j \in 1..ws : LazyEnd(s, p + j, ClassWS, StopDotEnd) # 0}
            IN  IF ~MatchesAt(s, i, prefixes[a]) \/ js = {} THEN null
                ELSE LET j == SetMax(js)
                     IN  SubSeq(s, p + j, LazyEnd(s, p + j, ClassWS, StopDotEnd))
        hits == {i \in 1..Len(s) : \E a \in DOMAIN prefixes : group(i, a) # null}
    IN  IF hits = {} THEN null
        ELSE LET i == SetMin(hits)
                 a == SetMin({b \in DOMAIN prefixes : group(i, b) # null})
             IN  group(i, a)

InterestedInThe ==
    <<"i","n","t","e","r","e","s","t","e","d"," ","i","n"," ","t","h","e"," ">>
Course == <<"c","o","u","r","s","e">>

\* /interested in the ([\w\s+]+?)\s*course/i : group 1, or null
courseMatch(s) ==
    LET \* \s*course matches at q
        stop(t, q) ==
            \E n \in 0..RunLen(t, q, isSpaceChar) : MatchesAt(t, q + n, Course)
        group(i) ==
            LET g == i + Len(InterestedInThe)
                e == LazyEnd(s, g, ClassWSP, stop)
            IN  IF ~MatchesAt(s, i, InterestedInThe) \/ e = 0 THEN null
                ELSE SubSeq(s, g, e)
        hits == {i \in 1..Len(s) : group(i) # null}
    IN  IF hits = {} THEN null ELSE group(SetMin(hits))

LiveIn == <<"l","i","v","e"," ","i","n">>
In == <<"i","n">>
From == <<"f","r","o","m">>

\* /(?:live in|in|from)\s+([\w\s]+?),\s*([\w\s]+?)(?=\.|$)/i : <<group 1,
\* group 2>>, or null.  Group 1 holds no comma, so it ends at the first comma
\* after its start; \s+ and \s* give back what the lazy groups need.
locationMatch(s) ==
    LET prefixes == <<LiveIn, In, From>>
        \* groups when group 1 starts at g1
        from(g1) ==
            LET e1 == LazyEnd(s, g1, ClassWS, LAMBDA t, q : q <= Len(t) /\ t[q] = ",")
                c  == e1 + 1
                ns == {n \in 0..RunLen(s, c + 1, isSpaceChar) :
                          LazyEnd(s, c + 1 + n, ClassWS, StopDotEnd) # 0}
            IN  IF e1 = 0 \/ ns = {} THEN null
                ELSE LET g2 == c + 1 + SetMax(ns)
                     IN  << SubSeq(s, g1, e1),
                            SubSeq(s, g2, LazyEnd(s, g2, ClassWS, StopDotEnd)) >>
        groups(i, a) ==
            LET p  == i + Len(prefixes[a])
                js == {j \in 1..RunLen(s, p, isSpaceChar) : from(p + j) # null}
            IN  IF ~MatchesAt(s, i, prefixes[a]) \/ js = {} THEN null
                ELSE from(p + SetMax(js))
        hits == {i \in 1..Len(s) : \E a \in DOMAIN prefixes : groups(i, a) # null}
    IN  IF hits = {} THEN null
        ELSE LET i == SetMin(hits)
                 a == SetMin({b \in DOMAIN prefixes : groups(i, b) # null})
             IN  groups(i, a)

UserTag == <<"U","s","e","r",":">>
AllUnknown ==
    [name |-> Unknown, course |-> Unknown, city |-> Unknown, state |-> Unknown,
     userType |-> Unknown]

\* extractCallerInfo of the flat revision: the patterns are applied to the
\* caller's lines only; every field defaults to 'Unknown'.
extractCallerInfo(transcript) ==
    IF ~IsTruthy(transcript) THEN AllUnknown
    ELSE
    LET userLines ==
            join(SelectSeq(split(transcript, "\n"),
                           LAMBDA line : startsWith(line, UserTag)), "\n")
        ut  == userTypeMatch(userLines, TRUE)
        nm  == nameMatch(userLines)
        cm  == courseMatch(userLines)
        loc == locationMatch(userLines)
    IN  [name     |-> IF nm # null THEN trim(nm) ELSE Unknown,
         course   |-> IF cm # null THEN trim(cm) ELSE Unknown,
         city     |-> IF loc # null THEN trim(loc[1]) ELSE Unknown,
         state    |-> IF loc # null THEN trim(loc[2]) ELSE Unknown,
         userType |-> IF ut # null THEN capitalize(ut) ELSE Unknown]

MyNameIsSp == <<"m","y"," ","n","a","m","e"," ","i","s"," ">>
FromSp == <<"f","r","o","m"," ">>
AndIm == <<"a","n","d"," ","I","'","m">>
AndIAm == <<"a","n","d"," ","I"," ","a","m">>

\* /my name is ([\w\s]+?)(?=\.|\s|$|,|and I'm|and I am)/i : group 1, or null
nameMatchHistory(s) ==
    LET stop(t, q) ==
            \/ q = Len(t) + 1
            \/ q <= Len(t) /\ (t[q] \in {".", ","} \/ isSpaceChar(t[q]))
            \/ MatchesAt(t, q, AndIm)
            \/ MatchesAt(t, q, AndIAm)
        group(i) ==
            LET g == i + Len(MyNameIsSp)
                e == LazyEnd(s, g, ClassWS, stop)
            IN  IF ~MatchesAt(s, i, MyNameIsSp) \/ e = 0 THEN null
                ELSE SubSeq(s, g, e)
        hits == {i \in 1..Len(s) : group(i) # null}
    IN  IF hits = {} THEN null ELSE group(SetMin(hits))

\* /from ([\w\s]+),\s*([\w\s]+)/i : <<group 1, group 2>>, or null.  The greedy
\* group 1 is the whole run of [\w\s] and must be followed by the comma.
cityStateMatchHistory(s) ==
    LET groups(i) ==
            LET g1 == i + Len(FromSp)
                r1 == RunLen(s, g1, ClassWS)
                c  == g1 + r1
                ns == {n \in 0..RunLen(s, c + 1, isSpaceChar) :
                          RunLen(s, c + 1 + n, ClassWS) >= 1}
            IN  IF \/ ~MatchesAt(s, i, FromSp)
                   \/ r1 = 0
                   \/ ~(c <= Len(s) /\ s[c] = ",")
                   \/ ns = {}
                THEN null
                ELSE LET g2 == c + 1 + SetMax(ns)
                     IN  << SubSeq(s, g1, c - 1),
                            SubSeq(s, g2, g2 + RunLen(s, g2, ClassWS) - 1) >>
        hits == {i \in 1..Len(s) : groups(i) # null}
    IN  IF hits = {} THEN null ELSE groups(SetMin(hits))

\* /(?:from|in)\s([\w\s]+)/i : group 1, or null
cityMatchHistory(s) ==
    LET prefixes == <<From, In>>
        group(i, a) ==
            LET p == i + Len(prefixes[a])
                r == RunLen(s, p + 1, ClassWS)
            IN  IF \/ ~MatchesAt(s, i, prefixes[a])
                   \/ ~(p <= Len(s) /\ isSpaceChar(s[p]))
                   \/ r = 0
                THEN null
                ELSE SubSeq(s, p + 1, p + r)
        hits == {i \in 1..Len(s) : \E a \in DOMAIN prefixes : group(i, a) # null}
    IN  IF hits = {} THEN null
        ELSE LET i == SetMin(hits)
                 a == SetMin({b \in DOMAIN prefixes : group(i, b) # null})
             IN  group(i, a)

\* s.replace(/,$/, '')
dropTrailingComma(s) ==
    IF s # << >> /\ s[Len(s)] = "," THEN SubSeq(s, 1, Len(s) - 1) ELSE s

\* extractCallerInfo of the history revision: the patterns are applied to the
\* whole transcript, and transcript.match throws when transcript is not a
\* string.
extractCallerInfoHistory(transcript) ==
    IF ~IsString(transcript) THEN [threw |-> TRUE, info |-> AllUnknown]
    ELSE
    LET ut  == userTypeMatch(transcript, FALSE)
        nm  == nameMatchHistory(transcript)
        cm  == courseMatch(transcript)
        cs  == cityStateMatchHistory(transcript)
        ct  == cityMatchHistory(transcript)
    IN  [threw |-> FALSE,
         info |->
           [name     |-> IF nm # null THEN trim(nm) ELSE Unknown,
            course   |-> IF cm # null THEN trim(cm) ELSE Unknown,
            city     |-> IF cs # null THEN trim(cs[1])
                         ELSE IF ct # null THEN dropTrailingComma(trim(ct))
                         ELSE Unknown,
            state    |-> IF cs # null THEN trim(cs[2]) ELSE Unknown,
            userType |-> IF ut # null THEN capitalize(ut) ELSE Unknown]]

\* ------------------------------------------------------------------ JSON
\* JSON.stringify of a string: quoted, with quote, backslash and line break
\* escaped.
RECURSIVE escapeJson(_)
escapeJson(s) ==
    IF s = << >> THEN << >>
    ELSE (CASE s[1] = "\"" -> <<"\\", "\"">>
            [] s[1] = "\\" -> <<"\\", "\\">>
            [] s[1] = "\n" -> <<"\\", "n">>
            [] OTHER -> <<s[1]>>) \o escapeJson(Tail(s))
quoteJson(s) == <<"\"">> \o escapeJson(s) \o <<"\"">>

ExistingCaller == <<"E","x","i","s","t","i","n","g"," ","c","a","l","l","e","r">>
NewCaller == <<"N","e","w"," ","c","a","l","l","e","r">>
PreviousCallOnRecord ==
    <<"P","r","e","v","i","o","u","s"," ","c","a","l","l"," ","o","n"," ",
      "r","e","c","o","r","d",".">>
NoPreviousSummary ==
    <<"N","o"," ","p","r","e","v","i","o","u","s"," ","s","u","m","m","a","r","y",
      " ","a","v","a","i","l","a","b","l","e",".">>
ErrorCheckingDatabase ==
    <<"E","r","r","o","r"," ","c","h","e","c","k","i","n","g"," ",
      "d","a","t","a","b","a","s","e">>
InvalidJSON == <<"I","n","v","a","l","i","d"," ","J","S","O","N">>
KeyStatus == <<"s","t","a","t","u","s">>
KeyName == <<"n","a","m","e">>
KeyLastCallSummary ==
    <<"l","a","s","t","C","a","l","l","S","u","m","m","a","r","y">>

\* JSON.stringify({status, name, lastCallSummary}) of the tool-call result
stringifyResultPayload(p) ==
    <<"{">> \o quoteJson(KeyStatus) \o <<":">> \o quoteJson(p.status)
    \o <<",">> \o quoteJson(KeyName) \o <<":">> \o quoteJson(p.name)
    \o <<",">> \o quoteJson(KeyLastCallSummary) \o <<":">>
    \o quoteJson(p.lastCallSummary) \o <<"}">>

\* ------------------------------------------------------------- responses
\* res.status(200).send(), res.status(400).send(text), res.status(c).json(o)
SendEmpty(code) == [status |-> code, kind |-> "empty", body |-> << >>]
SendTextDroppingBody(code, text) == SendEmpty(code)
SendText(code, text) == [status |-> code, kind |-> "text", body |-> text]
SendJson(code, result) == [status |-> code, kind |-> "json", body |-> result]
\* What the platform answers when the handler's promise rejects: the route
\* has no error handling of its own, so the client gets either nothing or a
\* platform-generated 500.
PlatformError == [status |-> 500, kind |-> "platform", body |-> << >>]
\* body-parser's answer to a body express.json() rejects
ParserError == [status |-> 400, kind |-> "platform", body |-> << >>]

\* ---------------------------------------------------------------- inputs
\* A parsed message.  type and toolCall are discriminants that the code only
\* compares with literals; they are kept as TLA+ strings ("" = absent).
\* customer_sipUri is message.customer.sipUri, call_customer_number is
\* message.call.customer.number, call_customer_sipUri is
\* message.call.customer.sipUri (undefined when any step of the path is
\* missing); transcript stands for artifact.transcript / transcript.
NoToolCall == "<no toolCall>"
Sip91 == <<"s","i","p",":","9","1","@","h">>
Num91 == <<"9","1">>
Num92 == <<"9","2">>
CallerWantsInfo ==
    <<"c","a","l","l","e","r"," ","w","a","n","t","s"," ","i","n","f","o">>
TranscriptAsha ==
    <<"U","s","e","r",":"," ","m","y"," ","n","a","m","e"," ","i","s"," ",
      "A","s","h","a",".">>

PhoneFields ==
    { <<undefined, undefined, undefined>>,
      <<Sip91, undefined, undefined>>,
      <<undefined, Num91, undefined>>,
      <<undefined, Num92, undefined>>,
      <<undefined, NumberValue, undefined>> }
\* <<summary, transcript>> of an end-of-call-report
Reports ==
    { <<CallerWantsInfo, TranscriptAsha>>,
      <<CallerWantsInfo, << >> >>,
      <<CallerWantsInfo, undefined>>,
      <<undefined, undefined>> }

\* The transcripts a handler can hold, and what the extractors make of each
\* (the functions tabulated over the transcripts posted).
Transcripts == {st[2] : st \in Reports} \cup {<< >>}
callerInfoOf == [t \in Transcripts |-> extractCallerInfo(t)]
callerInfoHistoryOf == [t \in Transcripts |-> extractCallerInfoHistory(t)]

Message(type, toolCall, ph, summary, transcript) ==
    [type |-> type, toolCall |-> toolCall,
     customer_sipUri |-> ph[1], call_customer_number |-> ph[2],
     call_customer_sipUri |-> ph[3],
     summary |-> summary, transcript |-> transcript]
NoPhone == <<undefined, undefined, undefined>>

\* The messages posted: the fields a branch never reads are left out of the
\* variation (a tool call without toolCall or for another tool throws or
\* returns before the phone is read; a report without a usable phone ends
\* before the summary is read).
NoMessage == Message("", NoToolCall, NoPhone, undefined, undefined)
RealPhones ==
    {ph \in PhoneFields : /\ IsTruthy(Or(ph[1], Or(ph[2], ph[3])))
                          /\ NumberValue \notin {ph[1], ph[2], ph[3]}}
Messages ==
    {NoMessage, Message("status-update", NoToolCall, NoPhone, undefined, undefined)}
    \cup {Message("tool-call", tc, NoPhone, undefined, undefined) :
            tc \in {NoToolCall, "transferCall"}}
    \cup {Message("tool-call", tc, ph, undefined, undefined) :
            tc \in {"databasecheck", "databaseCheck"}, ph \in PhoneFields}
    \cup {Message("end-of-call-report", NoToolCall, ph, undefined, undefined) :
            ph \in PhoneFields \ RealPhones}
    \cup {Message("end-of-call-report", NoToolCall, ph, st[1], st[2]) :
            ph \in RealPhones, st \in Reports}

\* A request body: empty or absent; text that is not JSON; the JSON text
\* null; a JSON scalar (number, string, boolean); a JSON object, which
\* wraps the message as {message: ...} or is the message itself.
BareMessages ==
    {Message("status-update", NoToolCall, NoPhone, undefined, undefined),
     Message("end-of-call-report", NoToolCall,
             <<undefined, Num91, undefined>>, CallerWantsInfo, TranscriptAsha)}
Bodies ==
    {[kind |-> k, wrapped |-> FALSE, message |-> NoMessage] :
        k \in {"empty", "malformed", "null", "scalar"}}
    \cup {[kind |-> "object", wrapped |-> TRUE, message |-> m] : m \in Messages}
    \cup {[kind |-> "object", wrapped |-> FALSE, message |-> m] :
            m \in BareMessages}

\* ------------------------------------------------------------ LLM oracle
\* What the generateContent call can do: fail in transport, answer with a
\* non-success status, answer with a body that is not JSON, answer without
\* candidates, answer with generated text that is not JSON; or answer with
\* generated text that is JSON: the text null, an object that omits fields,
\* an object with every field.
LlmFailures == {"transport", "status", "outerJson", "noCandidates", "innerJson"}
LlmOutcomes == LlmFailures \cup {"null", "partial", "full"}
\* In the form revision, which takes the caller's name from the oracle, the
\* generated text may also be an object whose name is null.  (The other
\* revisions store and post a null field like any other value.)
LlmOutcomesOf(revision) ==
    IF revision = "form" THEN LlmOutcomes \cup {"nullName"} ELSE LlmOutcomes

Date2026 == <<"2","0","2","6","-","0","1","-","0","1">>
Asha == <<"A","s","h","a">>
Pune == <<"P","u","n","e">>
Student == <<"S","t","u","d","e","n","t">>
WantsCallback ==
    <<"W","a","n","t","s"," ","a"," ","c","a","l","l","b","a","c","k",".">>
GeminiFailed ==
    <<"G","e","m","i","n","i"," ","a","n","a","l","y","s","i","s"," ",
      "f","a","i","l","e","d",":"," ">>
ErrorDuringAI ==
    <<"E","r","r","o","r"," ","d","u","r","i","n","g"," ","A","I"," ",
      "a","n","a","l","y","s","i","s",".">>
\* error.message of the failure
errorMessage(outcome) ==
    CASE outcome = "transport" -> <<"f","e","t","c","h">>
      [] outcome = "status" -> <<"s","t","a","t","u","s">>
      [] outcome = "noCandidates" -> <<"u","n","d","e","f","i","n","e","d">>
      [] OTHER -> <<"J","S","O","N">>

\* Variant of the catch block that returns an object without fields.
DefaultAnalysisEmpty(revision, outcome) == << >>
\* The object the catch block of analyzeCallSummary returns.
DefaultAnalysis(revision, outcome) ==
    CASE revision = "flat" ->
           ("Call Status" :> ConnectedIB) @@ ("Lead Status" :> Uncertain)
           @@ ("contact_status" :> Uncertain)
           @@ ("contact_followupdate" :> NA) @@ ("contact_followuptime" :> NA)
      [] revision = "form" ->
           ("name" :> Unknown) @@ ("User Type" :> Unknown)
           @@ ("course" :> Unknown) @@ ("city" :> Unknown) @@ ("state" :> Unknown)
           @@ ("Call Status" :> ConnectedIB) @@ ("Lead Status" :> Uncertain)
           @@ ("contact_status" :> Uncertain)
           @@ ("contact_followupdate" :> NA) @@ ("contact_followuptime" :> NA)
           @@ ("remark" :> GeminiFailed \o errorMessage(outcome))
      [] OTHER ->
           ("callStatus" :> ConnectedIB) @@ ("leadStatus" :> Uncertain)
           @@ ("followupDate" :> NA) @@ ("remark" :> ErrorDuringAI)

\* The objects the oracle's generated text decodes to in the model.
FullAnalysis(revision) ==
    CASE revision = "flat" ->
           ("Call Status" :> ConnectedOB) @@ ("Lead Status" :> Interested)
           @@ ("contact_status" :> Interested)
           @@ ("contact_followupdate" :> Date2026) @@ ("contact_followuptime" :> NA)
      [] revision = "form" ->
           ("name" :> Asha) @@ ("User Type" :> Student)
           @@ ("course" :> Unknown) @@ ("city" :> Pune) @@ ("state" :> Unknown)
           @@ ("Call Status" :> ConnectedOB) @@ ("Lead Status" :> Interested)
           @@ ("contact_status" :> Interested)
           @@ ("contact_followupdate" :> Date2026) @@ ("contact_followuptime" :> NA)
           @@ ("remark" :> WantsCallback)
      [] OTHER ->
           ("callStatus" :> ConnectedOB) @@ ("leadStatus" :> Interested)
           @@ ("followupDate" :> Date2026) @@ ("remark" :> WantsCallback)
PartialAnalysis(revision) ==
    IF revision = "history" THEN ("callStatus" :> Busy)
    ELSE ("Call Status" :> Busy)
NullNameAnalysis == [FullAnalysis("form") EXCEPT !["name"] = null]

\* analyzeCallSummary: every failure of the call or of either JSON decode is
\* caught and answered with the default; otherwise the decoded text is
\* returned as it is, null included.
analyzeCallSummary(revision, outcome) ==
    IF outcome \in LlmFailures
    THEN [isNull |-> FALSE, obj |-> DefaultAnalysis(revision, outcome)]
    ELSE IF outcome = "null"
    THEN [isNull |-> TRUE, obj |-> << >>]
    ELSE IF outcome = "partial"
    THEN [isNull |-> FALSE, obj |-> PartialAnalysis(revision)]
    ELSE IF outcome = "nullName"
    THEN [isNull |-> FALSE, obj |-> NullNameAnalysis]
    ELSE [isNull |-> FALSE, obj |-> FullAnalysis(revision)]

\* new Date().toISOString() read by request r at the given place of the
\* handler: a value of its own for every read.
toISOString(r, place) == <<"@", ToString(r), place>>

\* ------------------------------------------------------- record building
\* fullCrmData of the flat revision
\* Variant of fullCrmData that leaves the phone key empty.
fullCrmDataFlatUnkeyed(r, callerPhoneNumber, callerInfo, analysis) ==
    ("contact_num" :> << >>)
    @@ ("contact_name" :> callerInfo.name)
    @@ ("contact_status" :> Get(analysis, "contact_status"))
    @@ ("contact_followuptime" :> Get(analysis, "contact_followuptime"))
    @@ ("contact_followupdate" :> Get(analysis, "contact_followupdate"))
    @@ ("User Type" :> callerInfo.userType)
    @@ ("city" :> callerInfo.city)
    @@ ("state" :> callerInfo.state)
    @@ ("Call Status" :> Get(analysis, "Call Status"))
    @@ ("Lead Status" :> Get(analysis, "Lead Status"))
    @@ ("lastUpdatedAt" :> toISOString(r, "lastUpdatedAt"))
fullCrmDataFlat(r, callerPhoneNumber, callerInfo, analysis) ==
    ("contact_num" :> callerPhoneNumber)
    @@ ("contact_name" :> callerInfo.name)
    @@ ("contact_status" :> Get(analysis, "contact_status"))
    @@ ("contact_followuptime" :> Get(analysis, "contact_followuptime"))
    @@ ("contact_followupdate" :> Get(analysis, "contact_followupdate"))
    @@ ("User Type" :> callerInfo.userType)
    @@ ("city" :> callerInfo.city)
    @@ ("state" :> callerInfo.state)
    @@ ("Call Status" :> Get(analysis, "Call Status"))
    @@ ("Lead Status" :> Get(analysis, "Lead Status"))
    @@ ("lastUpdatedAt" :> toISOString(r, "lastUpdatedAt"))

\* extraParamString and fullCrmData of the form revision
fullCrmDataForm(r, callerPhoneNumber, analysis) ==
    LET extraParamString ==
            join(<< sanitizeValue(Get(analysis, "User Type")),
                    sanitizeValue(Get(analysis, "course")),
                    sanitizeValue(Get(analysis, "city")),
                    sanitizeValue(Get(analysis, "state")),
                    Incoming,
                    sanitizeValue(Get(analysis, "Lead Status")) >>, "$")
    IN  ("contact_num" :> sanitizeValue(callerPhoneNumber))
        @@ ("contact_name" :> sanitizeValue(Get(analysis, "name")))
        @@ ("contact_status" :> sanitizeValue(Get(analysis, "contact_status")))
        @@ ("contact_followuptime" :>
                sanitizeValue(Get(analysis, "contact_followuptime")))
        @@ ("contact_followupdate" :>
                sanitizeValue(Get(analysis, "contact_followupdate")))
        @@ ("User Type" :> sanitizeValue(Get(analysis, "User Type")))
        @@ ("city" :> sanitizeValue(Get(analysis, "city")))
        @@ ("state" :> sanitizeValue(Get(analysis, "state")))
        @@ ("Call Status" :> sanitizeValue(Get(analysis, "Call Status")))
        @@ ("Lead Status" :> sanitizeValue(Get(analysis, "Lead Status")))
        @@ ("lastUpdatedAt" :> toISOString(r, "lastUpdatedAt"))
        @@ ("extra_param" :> extraParamString)
        @@ ("contact_comment" :> sanitizeValue(Get(analysis, "remark")))

\* newCallRecord of the history revision
newCallRecord(r, summary, transcript, analysis) ==
    [date |-> toISOString(r, "date"),
     summary |-> summary,
     callStatus |-> Or(Get(analysis, "callStatus"), ConnectedIB),
     leadStatus |-> Or(Get(analysis, "leadStatus"), Uncertain),
     followupDate |-> Or(Get(analysis, "followupDate"), NA),
     remark |-> Or(Get(analysis, "remark"), NoRemark),
     transcript |-> transcript]

\* The document the history revision creates for a new caller.
newCallerDoc(r, callerPhoneNumber, callerInfo, entry) ==
    [phoneNumber |-> callerPhoneNumber,
     name |-> callerInfo.name,
     course |-> callerInfo.course,
     city |-> callerInfo.city,
     state |-> callerInfo.state,
     userType |-> callerInfo.userType,
     createdAt |-> toISOString(r, "createdAt"),
     callHistory |-> <<entry>>]

\* ----------------------------------------------------------- CRM payload
Authcode == <<"a","u","t","h">>
CommaSpace == <<",", " ">>
\* The JSON body the flat revision posts.
crmPayloadFlat(data) ==
    [authcode |-> Authcode,
     contact_num |-> data["contact_num"],
     contact_name |-> data["contact_name"],
     contact_status |-> data["contact_status"],
     contact_followuptime |-> data["contact_followuptime"],
     contact_followupdate |-> data["contact_followupdate"],
     user_type |-> data["User Type"],
     city |-> data["city"],
     state |-> data["state"],
     call_status |-> data["Call Status"],
     lead_status |-> data["Lead Status"]]
\* The form fields the form revision posts.
crmPayloadForm(data) ==
    [authcode |-> Authcode,
     contact_num |-> data["contact_num"],
     contact_name |-> data["contact_name"],
     contact_address |->
        IF IsTruthy(data["city"]) /\ IsTruthy(data["state"])
        THEN data["city"] \o CommaSpace \o data["state"]
        ELSE Or(data["city"], data["state"]),
     contact_status |-> data["contact_status"],
     contact_followuptime |-> data["contact_followuptime"],
     contact_followupdate |-> data["contact_followupdate"],
     extra_param |-> data["extra_param"],
     contact_comment |-> data["contact_comment"]]

\* What the savecontact call can do: fail in transport, answer with a
\* non-success status, answer with a body that is not JSON, succeed.
CrmOutcomes == {"transport", "status", "badJson", "ok"}

\* ------------------------------------------------------------------ store
\* Variant of Query for a store whose lookups never match.
QueryNone(store, field, value) == {}
\* The callers collection: the documents in the order they were added; a
\* document reference is its position.  No uniqueness is enforced.
\* where(field, '==', value): the matching documents.  limit(1).get()
\* returns one of them (the actions choose which).
\* Variant of Query for a store whose lookups match every document.
QueryAny(store, field, value) == DOMAIN store
Query(store, field, value) ==
    {d \in DOMAIN store : store[d][field] = value}
\* The store client rejects data that holds undefined (getFirestore() is
\* used with its default settings, which do not ignore undefined).
HasUndefined(data) == \E f \in DOMAIN data : data[f] = undefined
\* Variant of Merge in which the fields the document already has stay.
MergeKeepingStored(doc, patch) ==
    [f \in DOMAIN doc \cup DOMAIN patch |->
        IF f \in DOMAIN doc THEN doc[f] ELSE patch[f]]
\* ref.update(patch): the fields of the patch replace the document's, the
\* other fields stay.
Merge(doc, patch) ==
    [f \in DOMAIN doc \cup DOMAIN patch |->
        IF f \in DOMAIN patch THEN patch[f] ELSE doc[f]]
\* Variant of ApplyWrite for a store that acknowledges updates without
\* applying them.
ApplyWriteDroppingUpdates(store, op) ==
    IF op.kind = "add" THEN Append(store, op.doc) ELSE store
\* Variant of ApplyWrite in which an update replaces the document by the
\* patch.
ApplyWriteReplacing(store, op) ==
    IF op.kind = "add" THEN Append(store, op.doc)
    ELSE [store EXCEPT ![op.ref] = op.patch]
\* The effect of a write on the store.
ApplyWrite(store, op) ==
    IF op.kind = "add" THEN Append(store, op.doc)
    ELSE [store EXCEPT ![op.ref] = Merge(store[op.ref], op.patch)]

\* ------------------------------------------------------ steps of a request
\* The result of running the handler from one suspension point to the next:
\* where it stops (awaiting a call, done, or rejected with an uncaught
\* exception), its locals, the response it sent, the call it issued.
Reply(t, response) ==
    [next |-> "done", task |-> [phone |-> t.phone], send |-> <<response>>,
     call |-> << >>]
Throw(t) ==
    [next |-> "rejected", task |-> [phone |-> t.phone], send |-> << >>,
     call |-> << >>]
Await(op, t) ==
    [next |-> op, task |-> t, send |-> << >>,
     call |-> <<[op |-> op, out |-> "pending"]>>]
IdleTask == [phone |-> null]

\* Lines 88-171 of the flat revision, up to the first await.
HandleMessageFlat(message) ==
    IF message.type = "" THEN Reply(IdleTask, SendEmpty(200))
    ELSE IF message.type = "tool-call" /\ message.toolCall = NoToolCall
    THEN Throw(IdleTask)
    ELSE IF message.type = "tool-call" /\ message.toolCall = "databasecheck"
    THEN LET ph == getPhoneNumberFromMessage(message)
         IN  IF ph.threw THEN Throw(IdleTask)
             ELSE IF ~IsTruthy(ph.value)
             THEN Reply(IdleTask, SendJson(200, [result |-> NewCaller]))
             ELSE Await("toolLookup", [phone |-> ph.value])
    ELSE IF message.type = "end-of-call-report"
    THEN LET ph == getPhoneNumberFromMessage(message)
         IN  IF ph.threw THEN Throw(IdleTask)
             ELSE IF ~IsTruthy(ph.value) THEN Reply(IdleTask, SendEmpty(200))
             ELSE Await("llm", [phone |-> ph.value,
                                transcript |-> Or(message.transcript, << >>)])
    ELSE Reply(IdleTask, SendEmpty(200))

\* Lines 90-158 of the form revision, up to the first await: the tool-call
\* branch is empty, but its condition still reads message.toolCall.name.
HandleMessageForm(message) ==
    IF message.type = "" THEN Reply(IdleTask, SendEmpty(200))
    ELSE IF message.type = "tool-call" /\ message.toolCall = NoToolCall
    THEN Throw(IdleTask)
    ELSE IF message.type = "end-of-call-report"
    THEN LET ph == getPhoneNumberFromMessage(message)
         IN  IF ph.threw THEN Throw(IdleTask)
             ELSE IF ~IsTruthy(ph.value) THEN Reply(IdleTask, SendEmpty(200))
             ELSE Await("llm", [phone |-> ph.value])
    ELSE Reply(IdleTask, SendEmpty(200))

\* Lines 248-332 of the history revision, up to the first await.
HandleMessageHistory(message) ==
    IF message.type = "tool-call" /\ message.toolCall = NoToolCall
    THEN Throw(IdleTask)
    ELSE IF message.type = "tool-call" /\ message.toolCall = "databaseCheck"
    THEN LET ph == getPhoneNumberFromCall(message)
         IN  IF ph.threw THEN Throw(IdleTask)
             ELSE IF ~IsTruthy(ph.value)
             THEN Reply(IdleTask, SendJson(200, [result |-> NewCaller]))
             ELSE Await("toolLookup", [phone |-> ph.value])
    ELSE IF message.type = "end-of-call-report"
    THEN LET ph == getPhoneNumberFromCall(message)
         IN  IF ph.threw THEN Throw(IdleTask)
             ELSE IF ~IsTruthy(ph.value) THEN Reply(IdleTask, SendEmpty(200))
             ELSE Await("llm", [phone |-> ph.value,
                                summary |-> message.summary,
                                transcript |-> message.transcript])
    ELSE Reply(IdleTask, SendEmpty(200))

\* The handler from its entry to its first await.  The flat and form
\* revisions read the body as text and parse it themselves; parsedBody.message
\* of the parsed text null throws.  The history revision gets the body
\* from express.json(), which answers what it cannot parse as an object
\* itself and hands over {} for an empty body; message.type of a body
\* without message throws.
HandlerStart(revision, body) ==
    IF revision = "history"
    THEN CASE body.kind \in {"malformed", "null", "scalar"} ->
                Reply(IdleTask, ParserError)
           [] body.kind = "empty" -> Throw(IdleTask)
           [] OTHER -> IF body.wrapped THEN HandleMessageHistory(body.message)
                       ELSE Throw(IdleTask)
    ELSE CASE body.kind = "empty" -> Reply(IdleTask, SendEmpty(200))
           [] body.kind = "malformed" -> Reply(IdleTask, SendText(400, InvalidJSON))
           [] body.kind = "null" -> Throw(IdleTask)
           [] body.kind = "scalar" -> Reply(IdleTask, SendEmpty(200))
           [] OTHER -> IF revision = "flat" THEN HandleMessageFlat(body.message)
                       ELSE HandleMessageForm(body.message)

\* The tool-call branch after its lookup: d is the document the query
\* returned, 0 when it returned none.
OnToolLookupReturn(revision, t, ok, store, d) ==
    IF ~ok THEN Reply(t, SendJson(500, [result |-> ErrorCheckingDatabase]))
    ELSE IF d = 0 THEN Reply(t, SendJson(200, [result |-> NewCaller]))
    ELSE LET callerData == store[d]
             resultPayload ==
                 IF revision = "history"
                 THEN LET h == callerData.callHistory
                          lastSummary == IF h = << >> THEN undefined
                                         ELSE h[Len(h)].summary
                      IN  [status |-> ExistingCaller,
                           name |-> Or(callerData.name, Unknown),
                           lastCallSummary |-> Or(lastSummary, NoPreviousSummary)]
                 ELSE [status |-> ExistingCaller,
                       name |-> Or(callerData["contact_name"], Unknown),
                       lastCallSummary |-> PreviousCallOnRecord]
         IN  Reply(t, SendJson(200,
                 [result |-> stringifyResultPayload(resultPayload)]))

\* The end-of-call branch after the LLM call: the analysis, the record to
\* store, then the store lookup.  Reading a field of a null analysis throws
\* inside the try block.
OnLlmReturn(revision, r, t, outcome) ==
    LET analysis == analyzeCallSummary(revision, outcome)
    IN  IF analysis.isNull THEN Reply(t, SendEmpty(500))
        ELSE IF revision = "flat"
        THEN Await("lookup",
                [phone |-> t.phone,
                 data |-> fullCrmDataFlat(r, t.phone,
                              callerInfoOf[t.transcript], analysis.obj)])
        ELSE IF revision = "form"
        THEN Await("lookup",
                [phone |-> t.phone,
                 data |-> fullCrmDataForm(r, t.phone, analysis.obj)])
        ELSE Await("lookup",
                [phone |-> t.phone, transcript |-> t.transcript,
                 data |-> newCallRecord(r, t.summary, t.transcript, analysis.obj)])

\* A write the store client refuses before sending it.
RefusedWrite(t) ==
    [next |-> "done", task |-> [phone |-> t.phone], send |-> <<SendEmpty(500)>>,
     call |-> <<[op |-> "write", out |-> "refused"]>>]

\* The end-of-call branch after the store lookup: create when the snapshot
\* is empty, update the document found otherwise (d, 0 when none).
OnLookupReturn(revision, r, t, ok, store, d) ==
    IF ~ok THEN Reply(t, SendEmpty(500))
    ELSE IF revision \in {"flat", "form"}
    THEN IF HasUndefined(t.data) THEN RefusedWrite(t)
         ELSE IF d = 0
         THEN Await("write",
                 [phone |-> t.phone, data |-> t.data,
                  op |-> [kind |-> "add",
                          doc |-> t.data
                                  @@ ("createdAt" :> toISOString(r, "createdAt"))]])
         ELSE Await("write",
                 [phone |-> t.phone, data |-> t.data,
                  op |-> [kind |-> "update", ref |-> d, patch |-> t.data]])
    ELSE IF d = 0
    THEN LET callerInfo == callerInfoHistoryOf[t.transcript]
         IN  IF callerInfo.threw THEN Reply(t, SendEmpty(500))
             ELSE IF HasUndefined(t.data) THEN RefusedWrite(t)
             ELSE Await("write",
                     [phone |-> t.phone,
                      op |-> [kind |-> "add",
                              doc |-> newCallerDoc(r, t.phone, callerInfo.info,
                                                   t.data)]])
    ELSE LET existingData == store[d]
             updatedHistory == Append(existingData.callHistory, t.data)
         IN  IF HasUndefined(t.data) THEN RefusedWrite(t)
             ELSE Await("write",
                     [phone |-> t.phone,
                      op |-> [kind |-> "update", ref |-> d,
                              patch |-> [callHistory |-> updatedHistory]]])

\* Variant of sendToExternalCRM that never calls the CRM.
SendToExternalCRMSkipped(revision, t, auth) == Reply(t, SendEmpty(200))
\* Variant of sendToExternalCRM that does not look at the authcode.
SendToExternalCRMUnchecked(revision, t, auth) ==
    Await("crm",
        [phone |-> t.phone,
         payload |-> IF revision = "flat" THEN crmPayloadFlat(t.data)
                     ELSE crmPayloadForm(t.data)])
\* sendToExternalCRM up to its fetch: nothing is sent without the authcode.
\* The form revision fills its FormData before the try block, and append
\* throws for a value that is null or undefined; the handler's catch
\* answers that with 500.
SendToExternalCRM(revision, t, auth) ==
    IF ~auth THEN Reply(t, SendEmpty(200))
    ELSE IF revision = "flat"
    THEN Await("crm", [phone |-> t.phone, payload |-> crmPayloadFlat(t.data)])
    ELSE IF \E f \in DOMAIN crmPayloadForm(t.data) :
                crmPayloadForm(t.data)[f] \in {null, undefined}
    THEN Reply(t, SendEmpty(500))
    ELSE Await("crm", [phone |-> t.phone, payload |-> crmPayloadForm(t.data)])

\* Variant of the branch that forwards whether or not the write succeeded.
OnWriteReturnForwardingAnyway(revision, t, ok, auth) ==
    IF revision = "history" THEN Reply(t, SendEmpty(200))
    ELSE SendToExternalCRM(revision, t, auth)
\* The end-of-call branch after the store write.
OnWriteReturn(revision, t, ok, auth) ==
    IF ~ok THEN Reply(t, SendEmpty(500))
    ELSE IF revision = "history" THEN Reply(t, SendEmpty(200))
    ELSE SendToExternalCRM(revision, t, auth)

\* Variant of the branch in which a CRM failure fails the request.
OnCrmReturnPropagating(t, outcome) ==
    IF outcome = "ok" THEN Reply(t, SendEmpty(200)) ELSE Reply(t, SendEmpty(500))
\* Variant of the branch in which a failed CRM call is issued again.
OnCrmReturnRetrying(t, outcome) ==
    IF outcome = "ok" THEN Reply(t, SendEmpty(200))
    ELSE Await("crm", [phone |-> t.phone, payload |-> t.payload])
\* The end-of-call branch after the CRM call: sendToExternalCRM catches
\* whatever the call did and returns.
OnCrmReturn(t, outcome) == Reply(t, SendEmpty(200))

\* ------------------------------------------------------------------ state
VARIABLES
    rev,       \* the deployed revision
    authcode,  \* whether EXTERNAL_CRM_AUTHCODE is set
    callers,   \* the callers collection
    pc,        \* per request: idle, the call it awaits, done
    task,      \* per request in flight: the handler's locals
    event,     \* per request in flight: what was posted (body kind or type)
    ext,       \* per request in flight: the external calls made, with outcome
    last,      \* the request that ended last: what it was, did and answered
    acked,     \* the requests answered 200 after their store write, with phone
    pure       \* a function of the module called on its own: argument, results

vars == <<rev, authcode, callers, pc, task, event, ext, last, acked, pure>>

Reqs == 1..MaxReq
Revisions == {"flat", "form", "history"}
KeyField == IF rev = "history" THEN "phoneNumber" ELSE "contact_num"
NoLast ==
    [req |-> 0, how |-> "none", event |-> "none", tool |-> NoToolCall,
     phone |-> null, res |-> << >>, ext |-> << >>]

\* No function is being called on its own.
NoCall == [fn |-> "none", arg |-> << >>, ret |-> << >>]

\* The history revision never reads the authcode.
Init ==
    /\ rev \in Revisions
    /\ authcode \in (IF rev = "history" THEN {FALSE} ELSE BOOLEAN)
    /\ callers = << >>
    /\ pc = [r \in Reqs |-> "idle"]
    /\ task = [r \in Reqs |-> IdleTask]
    /\ event = [r \in Reqs |-> "none"]
    /\ ext = [r \in Reqs |-> << >>]
    /\ last = NoLast
    /\ acked = {}
    /\ pure = NoCall

\* The record an end-of-call-report for Num91 left in the store before the
\* process started (request 0, full analysis).
EarlierRecord(revision) ==
    IF revision = "flat"
    THEN fullCrmDataFlat(0, Num91, callerInfoOf[TranscriptAsha], FullAnalysis("flat"))
         @@ ("createdAt" :> toISOString(0, "createdAt"))
    ELSE IF revision = "form"
    THEN fullCrmDataForm(0, Num91, FullAnalysis("form"))
         @@ ("createdAt" :> toISOString(0, "createdAt"))
    ELSE newCallerDoc(0, Num91, callerInfoHistoryOf[TranscriptAsha].info,
                      newCallRecord(0, CallerWantsInfo, TranscriptAsha,
                                    FullAnalysis("history")))

\* The process starts on a store that is empty or already holds one caller.
InitReports ==
    /\ rev \in Revisions
    /\ authcode \in (IF rev = "history" THEN {FALSE} ELSE BOOLEAN)
    /\ callers \in {<< >>, <<EarlierRecord(rev)>>}
    /\ pc = [r \in Reqs |-> "idle"]
    /\ task = [r \in Reqs |-> IdleTask]
    /\ event = [r \in Reqs |-> "none"]
    /\ ext = [r \in Reqs |-> << >>]
    /\ last = NoLast
    /\ acked = {}
    /\ pure = NoCall

\* The trace of calls with the outcome of the call in flight filled in.
Settle(trace, out) == [trace EXCEPT ![Len(trace)].out = out]
WriteOk(trace) == \E i \in DOMAIN trace : trace[i].op = "write" /\ trace[i].out = "ok"

\* The request moves on as the step result o says, from the trace of calls
\* and the event given.  A request that ends leaves its record in last.  A
\* rejected handler sends nothing itself; the platform answers 500 or not at
\* all.
Advance(r, o, trace, ev, tool) ==
    IF o.next \in {"done", "rejected"}
       THEN /\ pc' = [pc EXCEPT ![r] = "done"]
            /\ task' = [task EXCEPT ![r] = IdleTask]
            /\ event' = [event EXCEPT ![r] = "none"]
            /\ ext' = [ext EXCEPT ![r] = << >>]
            /\ \E sent \in (IF o.next = "done" THEN {o.send}
                            ELSE {<< >>, <<PlatformError>>}) :
                  last' = [req |-> r,
                           how |-> IF o.next = "done" THEN "returned" ELSE "rejected",
                           event |-> ev, tool |-> tool,
                           phone |-> o.task.phone,
                           res |-> sent, ext |-> trace \o o.call]
            /\ acked' = IF /\ o.next = "done"
                           /\ o.send[1].status = 200
                           /\ WriteOk(trace)
                        THEN acked \cup {<<r, o.task.phone>>} ELSE acked
       ELSE /\ pc' = [pc EXCEPT ![r] = o.next]
            /\ task' = [task EXCEPT ![r] = o.task]
            /\ event' = [event EXCEPT ![r] = ev]
            /\ ext' = [ext EXCEPT ![r] = trace \o o.call]
            /\ UNCHANGED <<last, acked>>

\* The tool a request in flight was called for: only the tool the revision
\* knows gets past the handler's first step.
KnownTool == IF rev = "history" THEN "databaseCheck" ELSE "databasecheck"
ToolOf(r) == IF event[r] = "tool-call" THEN KnownTool ELSE NoToolCall

\* Requests are numbered in the order they arrive.
MayArrive(r) == pc[r] = "idle" /\ (IF r = 1 THEN TRUE ELSE pc[r - 1] # "idle")
Settled(r) == pc[r] \in {"idle", "done"}

\* A request arrives and runs to its first await.
Receive(r) ==
    /\ MayArrive(r)
    /\ \E body \in Bodies :
          Advance(r, HandlerStart(rev, body), << >>,
                  IF body.kind = "object" THEN body.message.type ELSE body.kind,
                  body.message.toolCall)
    /\ UNCHANGED <<rev, authcode, callers, pure>>

\* An end-of-call-report of the caller Num91 arrives.
ReportBodies ==
    {body \in Bodies :
        /\ body.kind = "object" /\ body.wrapped
        /\ body.message.type = "end-of-call-report"
        /\ body.message.call_customer_number = Num91}
ReceiveReport(r) ==
    /\ MayArrive(r)
    /\ \E body \in ReportBodies :
          Advance(r, HandlerStart(rev, body), << >>, body.message.type,
                  body.message.toolCall)
    /\ UNCHANGED <<rev, authcode, callers, pure>>

\* The same, when the platform sends one event at a time.
ReceiveSequential(r) ==
    /\ \A q \in Reqs : Settled(q)
    /\ Receive(r)

\* The document a query limited to one returns: any of the matching ones,
\* 0 for an empty snapshot.
Snapshot(store, field, value) ==
    IF Query(store, field, value) = {} THEN {0} ELSE Query(store, field, value)

\* The lookup of the tool-call branch returns a document, none, or fails.
ToolLookupReturn(r) ==
    /\ pc[r] = "toolLookup"
    /\ \/ \E d \in Snapshot(callers, KeyField, task[r].phone) :
             Advance(r, OnToolLookupReturn(rev, task[r], TRUE, callers, d),
                     Settle(ext[r], "ok"), event[r], ToolOf(r))
       \/ Advance(r, OnToolLookupReturn(rev, task[r], FALSE, callers, 0),
                  Settle(ext[r], "fail"), event[r], ToolOf(r))
    /\ UNCHANGED <<rev, authcode, callers, pure>>

\* The LLM call returns.
LlmReturn(r) ==
    /\ pc[r] = "llm"
    /\ \E outcome \in LlmOutcomesOf(rev) :
          Advance(r, OnLlmReturn(rev, r, task[r], outcome),
                  Settle(ext[r], IF outcome \in LlmFailures THEN "fail" ELSE "ok"),
                  event[r], ToolOf(r))
    /\ UNCHANGED <<rev, authcode, callers, pure>>

\* The lookup of the upsert returns a document, none, or fails.
LookupReturn(r) ==
    /\ pc[r] = "lookup"
    /\ \/ \E d \in Snapshot(callers, KeyField, task[r].phone) :
             Advance(r, OnLookupReturn(rev, r, task[r], TRUE, callers, d),
                     Settle(ext[r], "ok"), event[r], ToolOf(r))
       \/ Advance(r, OnLookupReturn(rev, r, task[r], FALSE, callers, 0),
                  Settle(ext[r], "fail"), event[r], ToolOf(r))
    /\ UNCHANGED <<rev, authcode, callers, pure>>

\* The write of the upsert takes effect and returns, or fails.
WriteReturn(r) ==
    /\ pc[r] = "write"
    /\ \E ok \in BOOLEAN :
          /\ Advance(r, OnWriteReturn(rev, task[r], ok, authcode),
                     Settle(ext[r], IF ok THEN "ok" ELSE "fail"), event[r],
                     ToolOf(r))
          /\ callers' = IF ok THEN ApplyWrite(callers, task[r].op) ELSE callers
    /\ UNCHANGED <<rev, authcode, pure>>

\* The CRM call returns.
CrmReturn(r) ==
    /\ pc[r] = "crm"
    /\ \E outcome \in CrmOutcomes :
          Advance(r, OnCrmReturn(task[r], outcome),
                  Settle(ext[r], IF outcome = "ok" THEN "ok" ELSE "fail"),
                  event[r], ToolOf(r))
    /\ UNCHANGED <<rev, authcode, callers, pure>>

Next ==
    \E r \in Reqs :
        \/ Receive(r)
        \/ ToolLookupReturn(r)
        \/ LlmReturn(r)
        \/ LookupReturn(r)
        \/ WriteReturn(r)
        \/ CrmReturn(r)

Spec == Init /\ [][Next]_vars

\* One event at a time: each request finishes before the next starts.
NextSequential ==
    \E r \in Reqs :
        \/ ReceiveSequential(r)
        \/ ToolLookupReturn(r)
        \/ LlmReturn(r)
        \/ LookupReturn(r)
        \/ WriteReturn(r)
        \/ CrmReturn(r)

SpecSequential == Init /\ [][NextSequential]_vars

\* The flat revision alone.
InitFlat == Init /\ rev = "flat"
SpecFlat == InitFlat /\ [][Next]_vars

\* Concurrent end-of-call-reports, on an empty store or one that already
\* holds a caller.
NextReports ==
    \E r \in Reqs :
        \/ ReceiveReport(r)
        \/ LlmReturn(r)
        \/ LookupReturn(r)
        \/ WriteReturn(r)
        \/ CrmReturn(r)

SpecReports == InitReports /\ [][NextReports]_vars

\* Concurrent end-of-call-reports of two callers, Num91 and Num92, that
\* differ in nothing but the phone number.
ReceiveCaller(r) ==
    /\ MayArrive(r)
    /\ \E body \in {b \in Bodies :
                       /\ b.kind = "object" /\ b.wrapped
                       /\ b.message.type = "end-of-call-report"
                       /\ b.message.call_customer_number \in {Num91, Num92}
                       /\ b.message.summary = CallerWantsInfo
                       /\ b.message.transcript = TranscriptAsha} :
          Advance(r, HandlerStart(rev, body), << >>, body.message.type,
                  body.message.toolCall)
    /\ UNCHANGED <<rev, authcode, callers, pure>>
NextCallers ==
    \E r \in Reqs :
        \/ ReceiveCaller(r)
        \/ LlmReturn(r)
        \/ LookupReturn(r)
        \/ WriteReturn(r)
        \/ CrmReturn(r)

SpecCallers == Init /\ [][NextCallers]_vars

\* ------------------------------------------------- functions on their own
\* getPhoneNumberFromMessage and sanitizeValue read nothing but their
\* argument, so they are also run by themselves, on more arguments than the
\* requests above carry.
MaxNum == 2
MaxHost == 2
Strings(alphabet, n) == UNION {[1..k -> alphabet] : k \in 0..n}
NumStrings == Strings({"9", "1", "+"}, MaxNum)
HostStrings == Strings({"h", "@"}, MaxHost)
\* sip:<num>@<host>, <num>, and sip:<num> without a host part
SipForms == {SIP \o n \o <<"@">> \o h : n \in NumStrings, h \in HostStrings}
PlainNumbers == NumStrings \ {<< >>}
SipNoHost == {SIP \o n : n \in NumStrings}
PhoneValues == SipForms \cup PlainNumbers \cup SipNoHost
\* What a phone field holds when several fields are given at once.
PrecedenceValues == {undefined, null, << >>, NumberValue, Num91, Num92, Sip91}
PhoneInputs ==
    {<<v, undefined, undefined>> : v \in PhoneValues}
    \cup {<<undefined, v, undefined>> : v \in PhoneValues}
    \cup {<<undefined, undefined, v>> : v \in PhoneValues}
    \cup (PrecedenceValues \X PrecedenceValues \X PrecedenceValues)
PhoneMessages ==
    {Message("end-of-call-report", NoToolCall, ph, undefined, undefined) :
        ph \in PhoneInputs}
\* Values handed to sanitizeValue: the three it knows, strings that differ
\* from them in case or by a space, other strings, and values that are not
\* strings.
Lower(s) == [i \in DOMAIN s |-> toLowerCase1(s[i])]
SanitizeInputs ==
    nullValues
    \cup {Lower(v) : v \in nullValues}
    \cup {v \o <<" ">> : v \in nullValues}
    \cup {<<" ">> \o v : v \in nullValues}
    \cup {<< >>, <<" ">>, Asha, Pune, Num91, undefined, null, NumberValue}
\* Transcripts handed to extractCallerInfo: none, an empty one, and lines
\* that name each user type in lower case, in upper case and capitalized,
\* said by the caller, said by the agent, or inside a longer word.
Upper(s) == [i \in DOMAIN s |-> toUpperCase1(s[i])]
IAmA == <<"U","s","e","r",":"," ","I"," ","a","m"," ","a"," ">>
UserTypeSpellings ==
    UNION {{UserTypeWords[a], Upper(UserTypeWords[a]), capitalize(UserTypeWords[a])} :
             a \in DOMAIN UserTypeWords}
ExtractInputs ==
    {undefined, << >>, TranscriptAsha}
    \cup {IAmA \o w : w \in UserTypeSpellings}
    \cup {IAmA \o w \o <<"s">> : w \in UserTypeSpellings}
    \cup {<<"A","I",":"," ">> \o w : w \in UserTypeSpellings}

InitPure ==
    /\ rev = "flat"
    /\ authcode = FALSE
    /\ callers = << >>
    /\ pc = [r \in Reqs |-> "idle"]
    /\ task = [r \in Reqs |-> IdleTask]
    /\ event = [r \in Reqs |-> "none"]
    /\ ext = [r \in Reqs |-> << >>]
    /\ last = NoLast
    /\ acked = {}
    /\ pure \in {[fn |-> "getPhoneNumberFromMessage", arg |-> m, ret |-> << >>] :
                    m \in PhoneMessages}
               \cup {[fn |-> "sanitizeValue", arg |-> v, ret |-> << >>] :
                        v \in SanitizeInputs}
               \cup {[fn |-> "extractCallerInfo", arg |-> t, ret |-> << >>] :
                        t \in ExtractInputs}

\* getPhoneNumberFromMessage(message) is called once.
CallGetPhoneNumberFromMessage ==
    /\ pure.fn = "getPhoneNumberFromMessage"
    /\ pure.ret = << >>
    /\ pure' = [pure EXCEPT !.ret = <<getPhoneNumberFromMessage(pure.arg)>>]
    /\ UNCHANGED <<rev, authcode, callers, pc, task, event, ext, last, acked>>

\* sanitizeValue(value) is called, and then called again on what it returned.
CallSanitizeValue ==
    /\ pure.fn = "sanitizeValue"
    /\ Len(pure.ret) < 2
    /\ pure' = [pure EXCEPT !.ret =
                    Append(@, sanitizeValue(IF @ = << >> THEN pure.arg
                                            ELSE @[Len(@)]))]
    /\ UNCHANGED <<rev, authcode, callers, pc, task, event, ext, last, acked>>

\* extractCallerInfo(transcript) is called once.
CallExtractCallerInfo ==
    /\ pure.fn = "extractCallerInfo"
    /\ pure.ret = << >>
    /\ pure' = [pure EXCEPT !.ret = <<extractCallerInfo(pure.arg)>>]
    /\ UNCHANGED <<rev, authcode, callers, pc, task, event, ext, last, acked>>

NextPure ==
    \/ CallGetPhoneNumberFromMessage
    \/ CallSanitizeValue
    \/ CallExtractCallerInfo

SpecPure == InitPure /\ [][NextPure]_vars

\* ----------------------------------------------------------- observations
\* A request has ended; the status it was answered with (0 when it was
\* not answered).
Ended == last.how # "none"
Returned == last.how = "returned"
LastStatus == IF Len(last.res) = 1 THEN last.res[1].status ELSE 0
\* The traces of external calls: of the requests in flight and of the last
\* one that ended.
Traces == {ext[r] : r \in Reqs} \cup {last.ext}
Has(trace, op, outs) ==
    \E i \in DOMAIN trace : trace[i].op = op /\ trace[i].out \in outs
Count(trace, ops) == Cardinality({i \in DOMAIN trace : trace[i].op \in ops})
UpsertFailed(trace) ==
    Has(trace, "lookup", {"fail"}) \/ Has(trace, "write", {"fail", "refused"})
\* The documents stored under a phone number.
RecordsOf(phone) == {d \in DOMAIN callers : callers[d][KeyField] = phone}
\* The phone numbers with a write that succeeded.
Persisted ==
    {a[2] : a \in acked}
    \cup {task[r].phone : r \in {q \in Reqs : WriteOk(ext[q])}}
\* The history of some document holds the entry of request r.
HasEntry(r) ==
    \E d \in DOMAIN callers : \E i \in DOMAIN callers[d].callHistory :
        callers[d].callHistory[i].date = toISOString(r, "date")
\* What a pending write of request r stores.
Written(r) ==
    IF task[r].op.kind = "add" THEN task[r].op.doc ELSE task[r].op.patch
Sentinels == {NA, Unknown, Uncertain}

\* ------------------------------------------------------------------ C1
\* C1: every request that has ended was answered exactly once, with status
\* 200, 400 or 500.
ExactlyOneResponse ==
    Ended => Len(last.res) = 1 /\ LastStatus \in {200, 400, 500}

\* ------------------------------------------------------------------ C2
\* C2: the handler answers 500 only when the lookup or the write of the
\* end-of-call upsert failed.
ServerErrorOnlyFromUpsert ==
    (Returned /\ LastStatus = 500) => UpsertFailed(last.ext)

\* ------------------------------------------------------------------ C3
\* C3: with one event handled at a time, no phone number has two records,
\* and every phone number with a write that succeeded has exactly one.
OneRecordPerPhone ==
    /\ \A d \in DOMAIN callers :
          Cardinality(RecordsOf(callers[d][KeyField])) = 1
    /\ \A p \in Persisted : Cardinality(RecordsOf(p)) = 1
\* Two events for one phone were both stored and acknowledged, in one record.
SecondEventUpdated ==
    \E a \in acked : \E b \in acked :
        a[1] # b[1] /\ a[2] = b[2] /\ Cardinality(RecordsOf(a[2])) = 1

IsDefault(data) ==
    /\ data["Call Status"] = ConnectedIB
    /\ data["Lead Status"] = Uncertain
    /\ data["contact_status"] = Uncertain
    /\ data["contact_followupdate"] = NA
    /\ data["contact_followuptime"] = NA
FailOpenDefault ==
    /\ Uncertain \notin LeadStatusEnum
    /\ rev = "flat" =>
          /\ \A r \in Reqs :
                (Has(ext[r], "llm", {"fail"}) /\ pc[r] # "llm") =>
                    /\ pc[r] \in {"lookup", "write", "crm"}
                    /\ pc[r] = "lookup" => IsDefault(task[r].data)
                    /\ pc[r] = "write" => IsDefault(Written(r))
          /\ (Has(last.ext, "llm", {"fail"}) /\ Has(last.ext, "lookup", {"ok"})
                  /\ WriteOk(last.ext))
                => (Returned /\ LastStatus = 200)
\* A request whose LLM call failed was stored with the default and answered 200.
DefaultStored ==
    /\ rev = "flat"
    /\ Has(last.ext, "llm", {"fail"}) /\ WriteOk(last.ext) /\ LastStatus = 200
    /\ \E d \in RecordsOf(last.phone) : IsDefault(callers[d])

PersistenceBeforeForwarding ==
    /\ \A tr \in Traces : \A i \in DOMAIN tr :
          tr[i].op = "crm" =>
              \E j \in 1..(i - 1) : tr[j].op = "write" /\ tr[j].out = "ok"
    /\ UpsertFailed(last.ext) =>
          (Returned /\ LastStatus = 500 /\ Count(last.ext, {"crm"}) = 0)
\* With the credential set, a request whose write failed ended 500.
WriteFailedNotForwarded ==
    authcode /\ Has(last.ext, "write", {"fail"}) /\ LastStatus = 500

\* ------------------------------------------------------------------ C8
\* C8: a pending write targets a record keyed by the request's phone; an
\* end-of-call-report with a phone that was answered 200 had its write
\* succeed, the store holds a record under its phone, and with the
\* credential set exactly one CRM call was made.
AckImpliesPersistence ==
    /\ \A r \in Reqs : pc[r] = "write" =>
          IF task[r].op.kind = "add"
          THEN task[r].op.doc[KeyField] = task[r].phone
          ELSE /\ task[r].op.ref \in DOMAIN callers
               /\ callers[task[r].op.ref][KeyField] = task[r].phone
    /\ (last.event = "end-of-call-report" /\ IsTruthy(last.phone)
            /\ LastStatus = 200) =>
          /\ WriteOk(last.ext)
          /\ RecordsOf(last.phone) # {}
          /\ authcode => Count(last.ext, {"crm"}) = 1
\* With the credential set, an end-of-call-report was answered 200.
AckedWithCredential ==
    /\ authcode /\ last.event = "end-of-call-report" /\ IsTruthy(last.phone)
    /\ LastStatus = 200 /\ Count(last.ext, {"crm"}) = 1

\* ------------------------------------------------------------------ C9
\* C9: no field of a payload posted to the CRM is N/A, Unknown or Uncertain.
CrmPayloadSanitized ==
    \A r \in Reqs : pc[r] = "crm" =>
        \A f \in DOMAIN task[r].payload : task[r].payload[f] \notin Sentinels

\* ------------------------------------------------------------------ C10
\* C10: within one request there is at most one LLM call, one store lookup,
\* one store write and one CRM call.
NoRetries ==
    \A tr \in Traces :
        /\ Count(tr, {"llm"}) <= 1
        /\ Count(tr, {"lookup", "toolLookup"}) <= 1
        /\ Count(tr, {"write"}) <= 1
        /\ Count(tr, {"crm"}) <= 1
\* A request made all four calls, the first and the last of which failed.
AllCallsOnceWithFailures ==
    /\ Len(last.ext) = 4
    /\ Has(last.ext, "llm", {"fail"}) /\ Has(last.ext, "crm", {"fail"})

\* C11: a request that ended with a no-op event (a message with no type, a
\* type the handler does not know, a tool-call whose tool is not the one the
\* revision knows, or an end-of-call-report for which the phone extractor
\* returned nothing) was answered 200 with an empty body and made no LLM,
\* store or CRM call.
NoOpEvent ==
    /\ Ended
    /\ IF last.event = "tool-call" THEN last.tool # KnownTool
       ELSE IF last.event = "end-of-call-report"
       THEN Returned /\ last.phone = null
       ELSE last.event \in {"", "status-update"}
NoOpEventsAnswerEmpty ==
    NoOpEvent =>
        /\ Returned
        /\ last.res = <<SendEmpty(200)>>
        /\ last.ext = << >>

\* C12: the database-check branch of a tool-call only reads.  The step that
\* ends such a request leaves the store as it is, the request made no LLM
\* call, store write or CRM call, and the answer is 200: {result: "New
\* caller"} when the request had no phone or the store holds no record for
\* it, otherwise a result that is the JSON text of a payload with status
\* "Existing caller" and the name stored in a record of that phone.
NameField == IF rev = "history" THEN "name" ELSE "contact_name"
LastCallSummaries ==
    {PreviousCallOnRecord, NoPreviousSummary} \cup {st[1] : st \in Reports}
ExistingCallerResults(phone) ==
    {SendJson(200, [result |-> stringifyResultPayload(
                        [status |-> ExistingCaller,
                         name |-> callers[d][NameField],
                         lastCallSummary |-> s])]) :
        d \in RecordsOf(phone), s \in LastCallSummaries}
DatabaseCheckEnds(r) ==
    /\ pc[r] \in {"idle", "toolLookup"}
    /\ pc'[r] = "done"
    /\ last'.event = "tool-call"
    /\ last'.tool = KnownTool
DatabaseCheckReadOnly ==
    [][\A r \in Reqs :
          DatabaseCheckEnds(r) =>
              /\ callers' = callers
              /\ \A i \in DOMAIN last'.ext : last'.ext[i].op = "toolLookup"
              /\ IF RecordsOf(last'.phone) = {}
                 THEN last'.res = <<SendJson(200, [result |-> NewCaller])>>
                 ELSE /\ Len(last'.res) = 1
                      /\ last'.res[1] \in ExistingCallerResults(last'.phone)]_vars

\* C13: a request whose body is non-empty text that is not JSON was answered
\* 400 with the plain text "Invalid JSON"; a request with an empty or absent
\* body was answered 200 with an empty body; neither made an LLM, store or
\* CRM call.
BodyParsingOutcomes ==
    /\ Ended /\ last.event = "malformed" =>
           /\ last.res = <<[status |-> 400, kind |-> "text", body |-> InvalidJSON]>>
           /\ last.ext = << >>
    /\ Ended /\ last.event = "empty" =>
           /\ last.res = <<[status |-> 200, kind |-> "empty", body |-> << >>]>>
           /\ last.ext = << >>
\* The second request had a malformed body and was refused while the first
\* was still waiting for the store.
MalformedRefused ==
    /\ last.req = 2
    /\ last.event = "malformed"
    /\ LastStatus = 400
    /\ pc[1] = "write"

\* C14: getPhoneNumberFromMessage, called on a message that gives one phone
\* value, returns <num> when the value is sip:<num>@<host> and returns the
\* value itself when it is a plain number.
Given(message) ==
    {message.customer_sipUri, message.call_customer_number,
     message.call_customer_sipUri} \ {undefined}
PhoneReturned == pure.fn = "getPhoneNumberFromMessage" /\ pure.ret # << >>
SipNormalization ==
    PhoneReturned /\ Cardinality(Given(pure.arg)) = 1 =>
        LET v == CHOOSE x \in Given(pure.arg) : TRUE
        IN  /\ \A n \in NumStrings, h \in HostStrings :
                   v = SIP \o n \o <<"@">> \o h =>
                       pure.ret[1] = [threw |-> FALSE, value |-> n]
            /\ v \in PlainNumbers =>
                   pure.ret[1] = [threw |-> FALSE, value |-> v]
\* sip:+9@h@ was normalized to +9.
SipNormalized ==
    /\ PhoneReturned
    /\ pure.arg.call_customer_sipUri = SIP \o <<"+", "9", "@", "h", "@">>
    /\ pure.ret[1].value = <<"+", "9">>

\* C15: no value returned by getPhoneNumberFromMessage begins with sip:.
SchemeStripped ==
    PhoneReturned => ~startsWith(pure.ret[1].value, SIP)

\* C16: getPhoneNumberFromMessage returns what it returns for the first of
\* message.customer.sipUri, message.call.customer.number and
\* message.call.customer.sipUri that is present and not empty, whatever the
\* later ones hold; it returns null when none is; and the call changes
\* nothing but its own result.
Present(v) == v \notin {undefined, null, << >>}
FirstPresent(message) ==
    IF Present(message.customer_sipUri) THEN <<message.customer_sipUri>>
    ELSE IF Present(message.call_customer_number)
    THEN <<message.call_customer_number>>
    ELSE IF Present(message.call_customer_sipUri)
    THEN <<message.call_customer_sipUri>>
    ELSE << >>
Alone(v) ==
    Message("end-of-call-report", NoToolCall, <<v, undefined, undefined>>,
            undefined, undefined)
PhonePrecedence ==
    /\ [](PhoneReturned =>
             IF FirstPresent(pure.arg) = << >>
             THEN pure.ret[1] = [threw |-> FALSE, value |-> null]
             ELSE pure.ret[1] =
                      getPhoneNumberFromMessage(Alone(FirstPresent(pure.arg)[1])))
    /\ [][pure'.fn = "getPhoneNumberFromMessage" =>
             /\ pure'.arg = pure.arg
             /\ UNCHANGED <<rev, authcode, callers, pc, task, event, ext, last,
                            acked>>]_vars
\* message.customer.sipUri was empty, and the number was taken from
\* message.call.customer.number although message.call.customer.sipUri held
\* another one.
SecondSourceUsed ==
    /\ PhoneReturned
    /\ pure.arg.customer_sipUri = << >>
    /\ pure.arg.call_customer_number = Num92
    /\ pure.arg.call_customer_sipUri = Sip91
    /\ pure.ret[1].value = Num92

\* C17: when EXTERNAL_CRM_AUTHCODE is not set, no request makes or awaits a
\* CRM call, and an end-of-call-report whose store write succeeded has its
\* record in the store and was answered 200 with nothing raised.
MissingCredential ==
    ~authcode =>
        /\ \A t \in Traces : Count(t, {"crm"}) = 0
        /\ \A r \in Reqs : pc[r] # "crm"
        /\ Ended /\ last.event = "end-of-call-report" /\ WriteOk(last.ext) =>
               /\ Returned
               /\ last.res = <<SendEmpty(200)>>
               /\ RecordsOf(last.phone) # {}
\* Without the authcode a report was stored and answered 200.
StoredWithoutCredential ==
    /\ ~authcode
    /\ Ended
    /\ last.event = "end-of-call-report"
    /\ WriteOk(last.ext)
    /\ LastStatus = 200
    /\ RecordsOf(last.phone) # {}

\* C18: sanitizeValue returns the empty string for N/A, Unknown and
\* Uncertain and its argument for every other value, and sanitizeValue of
\* what it returned is what it returned.
SanitizeValueIdempotent ==
    pure.fn = "sanitizeValue" =>
        /\ Len(pure.ret) >= 1 =>
               pure.ret[1] = (IF pure.arg \in {NA, Unknown, Uncertain}
                              THEN << >> ELSE pure.arg)
        /\ Len(pure.ret) = 2 => pure.ret[2] = pure.ret[1]
\* Uncertain was sanitized twice.
UncertainSanitizedTwice ==
    /\ pure.fn = "sanitizeValue"
    /\ pure.arg = Uncertain
    /\ pure.ret = << << >>, << >> >>

\* C19: an end-of-call-report that was answered 500 has not written to the
\* store: none of its store writes succeeded.
FailedRequestCommitsNothing ==
    Ended /\ last.event = "end-of-call-report" /\ LastStatus = 500 =>
        ~WriteOk(last.ext)

\* C20: a store write that succeeds leaves the createdAt of every record
\* that existed as it was, gives a record it creates the createdAt taken by
\* its request, and leaves the record it created or updated with the
\* lastUpdatedAt taken by its request.
WriteSucceeds(r) ==
    /\ pc[r] = "write"
    /\ pc'[r] # "write"
    /\ WriteOk(IF pc'[r] = "done" THEN last'.ext ELSE ext'[r])
TimestampsOnUpsert ==
    [][\A r \in Reqs :
          WriteSucceeds(r) =>
              LET op == task[r].op
                  d == IF op.kind = "add" THEN Len(callers) + 1 ELSE op.ref
              IN  /\ \A e \in DOMAIN callers :
                         callers'[e]["createdAt"] = callers[e]["createdAt"]
                  /\ op.kind = "add" =>
                         callers'[d]["createdAt"] = toISOString(r, "createdAt")
                  /\ "lastUpdatedAt" \in DOMAIN callers'[d]
                  /\ callers'[d]["lastUpdatedAt"] =
                         toISOString(r, "lastUpdatedAt")]_vars

\* C21: in the flat revision a store write that succeeds leaves the record it
\* created or updated with every field other than createdAt equal to the
\* value the writing request derived from its event, whatever the record
\* held before.
WrittenDoc(r) ==
    IF task[r].op.kind = "add" THEN Len(callers) + 1 ELSE task[r].op.ref
LatestWins ==
    [][\A r \in Reqs :
          rev = "flat" /\ WriteSucceeds(r) =>
              \A f \in DOMAIN callers'[WrittenDoc(r)] \ {"createdAt"} :
                  /\ f \in DOMAIN task[r].data
                  /\ callers'[WrittenDoc(r)][f] = task[r].data[f]]_vars
\* The record of an earlier event held the name Asha; the next event for
\* that phone, handled alone, gave no name, and the record now holds Unknown
\* under the createdAt of the earlier event.
SentinelReplacedName ==
    /\ rev = "flat"
    /\ EarlierRecord("flat")["contact_name"] = Asha
    /\ pc = [r \in Reqs |-> IF r = 1 THEN "done" ELSE "idle"]
    /\ Len(callers) = 1
    /\ callers[1]["createdAt"] = toISOString(0, "createdAt")
    /\ callers[1]["lastUpdatedAt"] = toISOString(1, "lastUpdatedAt")
    /\ callers[1]["contact_name"] = Unknown

\* C22: in the history revision, with one event handled at a time, the
\* callHistory of a record has one entry for each acknowledged stored event
\* of its phone, in the order the events were handled; and a successful
\* update keeps the entries the record had, adds one, and leaves every
\* other field of the record as it was.
StoredEvents(phone) == {a[1] : a \in {b \in acked : b[2] = phone}}
\* The i-th smallest member of a set of request numbers.
Nth(S, i) == CHOOSE x \in S : Cardinality({y \in S : y < x}) = i - 1
AppendOnlyHistory ==
    /\ [](rev = "history" =>
             \A d \in DOMAIN callers :
                 /\ {"phoneNumber", "callHistory"} \subseteq DOMAIN callers[d]
                 /\ LET h == callers[d].callHistory
                        S == StoredEvents(callers[d].phoneNumber)
                    IN  /\ Len(h) = Cardinality(S)
                        /\ \A i \in DOMAIN h :
                               h[i].date = toISOString(Nth(S, i), "date"))
    /\ [][\A r \in Reqs :
             (rev = "history" /\ WriteSucceeds(r) /\ task[r].op.kind = "update") =>
                 LET old == callers[task[r].op.ref]
                     new == callers'[task[r].op.ref]
                 IN  /\ DOMAIN new = DOMAIN old
                     /\ \A f \in DOMAIN old \ {"callHistory"} : new[f] = old[f]
                     /\ Len(new.callHistory) = Len(old.callHistory) + 1
                     /\ SubSeq(new.callHistory, 1, Len(old.callHistory))
                            = old.callHistory]_vars
\* Two events of one phone were stored one after the other: the record has
\* their two entries in that order.
TwoEntriesInOrder ==
    /\ rev = "history"
    /\ Len(callers) = 1
    /\ Len(callers[1].callHistory) = 2
    /\ callers[1].callHistory[1].date = toISOString(1, "date")
    /\ callers[1].callHistory[2].date = toISOString(2, "date")
    /\ StoredEvents(callers[1].phoneNumber) = {1, 2}

\* C23: every record of the store has a phone key that is a non-empty
\* string, and the key is the phone number of an end-of-call-report whose
\* store write succeeded.
NoUnkeyedRecord ==
    \A d \in DOMAIN callers :
        /\ KeyField \in DOMAIN callers[d]
        /\ callers[d][KeyField] \notin {undefined, null, NumberValue, << >>}
        /\ callers[d][KeyField] \in Persisted
\* Two reports with different phone numbers were stored: two keyed records.
TwoKeyedRecords ==
    /\ Len(callers) = 2
    /\ callers[1][KeyField] # callers[2][KeyField]
    /\ {callers[1][KeyField], callers[2][KeyField]} = {a[2] : a \in acked}

\* C24: under any interleaving, the document a request reads for its update
\* has the request's phone number as key; a write that succeeds creates or
\* changes one document, whose key is the phone number of the writing
\* request, and leaves every other document as it was; no other step
\* changes the store.
IsolationBetweenCallers ==
    [][/\ \A r \in Reqs :
             (pc[r] = "lookup" /\ pc'[r] = "write"
                  /\ task'[r].op.kind = "update") =>
                 callers[task'[r].op.ref][KeyField] = task'[r].phone
       /\ \A r \in Reqs :
             WriteSucceeds(r) =>
                 /\ DOMAIN callers' = DOMAIN callers \cup {WrittenDoc(r)}
                 /\ callers'[WrittenDoc(r)][KeyField] = task[r].phone
                 /\ task[r].op.kind = "update" =>
                        callers[WrittenDoc(r)][KeyField] = task[r].phone
                 /\ \A e \in DOMAIN callers \ {WrittenDoc(r)} :
                        callers'[e] = callers[e]
       /\ (\A r \in Reqs : ~WriteSucceeds(r)) => callers' = callers]_vars
\* While the first request, for one phone number, waits for its write, the
\* second request has stored a record for another.
OtherCallerStoredMeanwhile ==
    /\ pc[1] = "write"
    /\ Len(callers) = 1
    /\ callers[1][KeyField] # task[1].phone
    /\ \E a \in acked : a[1] = 2 /\ a[2] = callers[1][KeyField]

\* C25: the userType extractCallerInfo returns is Unknown or one of the
\* literals Student, Guardian, Employee, Garage Owner, Unemployed, Other,
\* however the matched word was spelled; none of the five fields returned is
\* undefined; and without a transcript, or with an empty one, every field
\* is Unknown.
UserTypeLiterals ==
    {Unknown, Student,
     <<"G","u","a","r","d","i","a","n">>,
     <<"E","m","p","l","o","y","e","e">>,
     <<"G","a","r","a","g","e"," ","O","w","n","e","r">>,
     <<"U","n","e","m","p","l","o","y","e","d">>,
     <<"O","t","h","e","r">>}
UserTypeDomain ==
    (pure.fn = "extractCallerInfo" /\ pure.ret # << >>) =>
        /\ pure.ret[1].userType \in UserTypeLiterals
        /\ DOMAIN pure.ret[1] = {"name", "course", "city", "state", "userType"}
        /\ \A f \in DOMAIN pure.ret[1] : pure.ret[1][f] \notin {undefined, null}
        /\ pure.arg \in {undefined, << >>} => pure.ret[1] = AllUnknown
====
